---- MODULE Spec2Model ----
(***************************************************************************)
(* A model of NotionPlugin._convert_html_to_blocks                         *)
(* (mkdocs_notion_plugin/plugin.py): the conversion of a parsed HTML       *)
(* document into the sequence of Notion blocks.                            *)
(*                                                                         *)
(* A Python str is a sequence of one-character strings, so that lower(),   *)
(* strip(), startswith() and replace() are computed and not assumed.  A    *)
(* parsed node is a record [name, attrs, string, children]; a text node    *)
(* (a NavigableString) has name NoName and carries its text in string.     *)
(***************************************************************************)
EXTENDS Integers, Sequences, FiniteSets, TLC

VARIABLES
    html_content,   \* the argument: the parsed input document (the soup)
    main_content,   \* the content root chosen by lines 125-129
    idx,            \* position of the for loop over main_content.children
    blocks,         \* the list the loop appends to
    pc,             \* "start", "loop", "done" (returned) or "raised"
    pages,          \* self.pages: the pages stored for navigation
    database_id,    \* self.database_id: the projects table
    notion,         \* the workspace behind the client self.notion
    calls,          \* the locals of conversions running side by side
    build,          \* the locals and the position of on_post_build
    setup           \* the locals and the position of _create_docs_table

\* The state of the plugin and of what runs beside one conversion.
others == <<pages, database_id, notion, calls, build, setup>>

vars == <<html_content, main_content, idx, blocks, pc, others>>

----------------------------------------------------------------------------
(* Bounds of the model.                                                    *)

MaxChildren == 2    \* top-level children of the content root
MaxItems == 2       \* li children of a list
MaxRows == 2        \* tr rows of a table body
MaxCols == 2        \* cells of a table row

----------------------------------------------------------------------------
(* Python str operations on sequences of characters.                       *)

UpperCase == <<"A","B","C","D","E","F","G","H","I","J","K","L","M",
               "N","O","P","Q","R","S","T","U","V","W","X","Y","Z">>
LowerCase == <<"a","b","c","d","e","f","g","h","i","j","k","l","m",
               "n","o","p","q","r","s","t","u","v","w","x","y","z">>

Whitespace == {" ", "\n", "\t"}

LowerChar(c) ==
    IF \E k \in 1..Len(UpperCase) : UpperCase[k] = c
    THEN LowerCase[CHOOSE k \in 1..Len(UpperCase) : UpperCase[k] = c]
    ELSE c

\* str.lower()
Lower(s) == [k \in 1..Len(s) |-> LowerChar(s[k])]

\* str.startswith(prefix)
StartsWith(s, prefix) ==
    /\ Len(s) >= Len(prefix)
    /\ SubSeq(s, 1, Len(prefix)) = prefix

\* str.replace(old, new): every non-overlapping occurrence, left to right
RECURSIVE Replace(_, _, _)
Replace(s, old, new) ==
    IF Len(s) < Len(old) \/ Len(old) = 0 THEN s
    ELSE IF StartsWith(s, old)
         THEN new \o Replace(SubSeq(s, Len(old) + 1, Len(s)), old, new)
         ELSE <<Head(s)>> \o Replace(Tail(s), old, new)

RECURSIVE LStrip(_)
LStrip(s) ==
    IF s # <<>> /\ Head(s) \in Whitespace THEN LStrip(Tail(s)) ELSE s

RECURSIVE RStrip(_)
RStrip(s) ==
    IF s # <<>> /\ s[Len(s)] \in Whitespace
    THEN RStrip(SubSeq(s, 1, Len(s) - 1)) ELSE s

\* str.strip()
Strip(s) == RStrip(LStrip(s))

\* Concatenation of a sequence of sequences (''.join, and list flattening).
RECURSIVE Concat(_)
Concat(ss) == IF ss = <<>> THEN <<>> ELSE Head(ss) \o Concat(Tail(ss))

----------------------------------------------------------------------------
(* The parsed tree, as BeautifulSoup exposes it.                           *)

NoName == "None"            \* element.name of a text node
NoAttrs == [class |-> <<>>, role |-> ""]

NavigableString(s) ==
    [name |-> NoName, attrs |-> NoAttrs, string |-> s, children |-> <<>>]

Tag(name, attrs, children) ==
    [name |-> name, attrs |-> attrs, string |-> <<>>, children |-> children]

\* The result None of find().
NoTag == [name |-> "NoTag", attrs |-> NoAttrs, string |-> <<>>, children |-> <<>>]

\* BeautifulSoup(html_content, 'html.parser'): the root object of a parse.
BeautifulSoup(children) == Tag("[document]", NoAttrs, children)

\* Tag.get_text(): the concatenation of all descendant text.
RECURSIVE get_text(_)
get_text(node) ==
    IF node.name = NoName THEN node.string
    ELSE Concat([k \in 1..Len(node.children) |-> get_text(node.children[k])])

\* Tag.descendants: every node below node, in document order.
RECURSIVE descendants(_)
descendants(node) ==
    Concat([k \in 1..Len(node.children) |->
              <<node.children[k]>> \o descendants(node.children[k])])

\* Tag.find_all(name): the descendant elements called name, in document order.
find_all(node, name) ==
    SelectSeq(descendants(node), LAMBDA d : d.name = name)

\* Tag.find_all(name, recursive=False): the same among the children only.
find_all_children(node, name) ==
    SelectSeq(node.children, LAMBDA d : d.name = name)

\* Tag.find(name): the first such descendant, or None.
find(node, name) ==
    LET found == find_all(node, name)
    IN  IF found = <<>> THEN NoTag ELSE Head(found)

HasClass(node, cls) == \E k \in 1..Len(node.attrs.class) : node.attrs.class[k] = cls

\* Tag.find(name, {'role': role, 'class': cls}), and with role "" for
\* Tag.find(name, {'class': cls}): the first descendant called name that
\* has the attributes, or None.
find_attrs(node, name, role, cls) ==
    LET found == SelectSeq(find_all(node, name),
                           LAMBDA d : /\ role # "" => d.attrs.role = role
                                      /\ HasClass(d, cls))
    IN  IF found = <<>> THEN NoTag ELSE Head(found)

\* Tag.string: the text of a node that holds a single string, possibly
\* through a chain of only children; None (here <<>>, which is as falsy as
\* the empty string at its one use) otherwise.
RECURSIVE string(_)
string(node) ==
    IF node.name = NoName THEN node.string
    ELSE IF Len(node.children) = 1 THEN string(node.children[1])
    ELSE <<>>

----------------------------------------------------------------------------
(* The blocks _convert_html_to_blocks builds, one operator per dict        *)
(* literal of the source.                                                  *)

\* [{"text": {"content": ...}}]
rich_text(content) == <<[text |-> [content |-> content]]>>

\* lines 140-144
heading_1_block(element) ==
    [object |-> "block", type |-> "heading_1",
     heading_1 |-> [rich_text |-> rich_text(get_text(element))]]

\* lines 146-150
heading_2_block(element) ==
    [object |-> "block", type |-> "heading_2",
     heading_2 |-> [rich_text |-> rich_text(get_text(element))]]

\* lines 152-156
paragraph_block(element) ==
    [object |-> "block", type |-> "paragraph",
     paragraph |-> [rich_text |-> rich_text(get_text(element))]]

\* lines 196-200
quote_block(element) ==
    [object |-> "block", type |-> "quote",
     quote |-> [rich_text |-> rich_text(get_text(element))]]

(* The pre branch, lines 157-183.                                          *)

LanguagePrefix == <<"l","a","n","g","u","a","g","e","-">>
PlainText == <<"p","l","a","i","n"," ","t","e","x","t">>

\* lines 161-166: the tag of the first class that starts with 'language-',
\* every 'language-' in it removed; '' when there is no such class.
RECURSIVE ClassLanguage(_)
ClassLanguage(classes) ==
    IF classes = <<>> THEN <<>>
    ELSE IF StartsWith(Head(classes), LanguagePrefix)
         THEN Replace(Head(classes), LanguagePrefix, <<>>)
         ELSE ClassLanguage(Tail(classes))

\* line 173
CodeLanguage(language) ==
    IF language # <<>> THEN Lower(language) ELSE PlainText

\* lines 169-170
CodeContent(code_element) ==
    Strip(IF string(code_element) # <<>> THEN string(code_element)
          ELSE get_text(code_element))

\* lines 176-183
code_block(code_element) ==
    [object |-> "block", type |-> "code",
     code |-> [rich_text |-> <<[type |-> "text",
                                text |-> [content |-> CodeContent(code_element)]]>>,
               language |-> CodeLanguage(ClassLanguage(code_element.attrs.class))]]

\* lines 158-159 and 232: the blocks the pre branch appends.
pre_blocks(element) ==
    LET code_element == find(element, "code")
    IN  IF code_element # NoTag THEN <<code_block(code_element)>> ELSE <<>>

(* The ul/ol branch, lines 184-194.                                        *)

\* lines 186-191
list_block(element, li) ==
    IF element.name = "ul"
    THEN [object |-> "block", type |-> "bulleted_list_item",
          bulleted_list_item |-> [rich_text |-> rich_text(get_text(li))]]
    ELSE [object |-> "block", type |-> "numbered_list_item",
          numbered_list_item |-> [rich_text |-> rich_text(get_text(li))]]

\* list_blocks without recursive=False on line 185: the li of nested lists
\* are items too.
list_blocks_recursive(element) ==
    LET items == find_all(element, "li")
    IN  [k \in 1..Len(items) |-> list_block(element, items[k])]

\* lines 185-192: one block per direct li child, in order.
list_blocks(element) ==
    LET items == find_all_children(element, "li")
    IN  [k \in 1..Len(items) |-> list_block(element, items[k])]

(* The table branch, lines 201-230.                                        *)

\* line 204
table_headers(element) ==
    LET thead == find(element, "thead")
    IN  IF thead # NoTag
        THEN LET ths == find_all(thead, "th")
             IN  [k \in 1..Len(ths) |-> get_text(ths[k])]
        ELSE <<>>

\* lines 206-209
table_rows(element) ==
    LET tbody == find(element, "tbody")
    IN  IF tbody # NoTag
        THEN LET trs == find_all(tbody, "tr")
             IN  [k \in 1..Len(trs) |->
                    LET tds == find_all(trs[k], "td")
                    IN  [c \in 1..Len(tds) |-> get_text(tds[c])]]
        ELSE <<>>

\* lines 219-222 and 224-227
table_row(cells) ==
    [type |-> "table_row",
     table_row |-> [cells |-> [c \in 1..Len(cells) |->
                      <<[type |-> "text", text |-> [content |-> cells[c]]]>>]]]

\* line 221: rows[0] of an empty list raises IndexError.
table_raises(element) ==
    table_headers(element) = <<>> /\ table_rows(element) = <<>>

\* line 215
table_width(headers, rows) ==
    IF headers # <<>> THEN Len(headers)
    ELSE IF rows # <<>> THEN Len(rows[1]) ELSE 1

\* table_data_rows with rows[1:] on both sides of line 228: with a header,
\* the first body row is lost.
table_data_rows_tail(headers, rows) ==
    IF rows = <<>> THEN <<>> ELSE Tail(rows)

\* table_data_rows with rows on both sides of line 228: without a header,
\* the first body row comes twice.
table_data_rows_all(headers, rows) == rows

\* line 228: the rows after the leading one
table_data_rows(headers, rows) ==
    IF headers # <<>> THEN rows ELSE Tail(rows)

\* lines 211-230, where they do not raise
table_block(element) ==
    LET headers == table_headers(element)
        rows == table_rows(element)
        data == table_data_rows(headers, rows)
    IN  [object |-> "block", type |-> "table",
         table |-> [table_width |-> table_width(headers, rows),
                    has_column_header |-> (headers # <<>>),
                    has_row_header |-> FALSE,
                    children |->
                        <<table_row(IF headers # <<>> THEN headers ELSE rows[1])>>
                        \o [k \in 1..Len(data) |-> table_row(data[k])]]]

----------------------------------------------------------------------------
(* The input documents: the parse trees the conversion is run on.  A       *)
(* table has at most one thead and one tbody, its header cells are th and  *)
(* its body cells td, and its cells hold text: no table is nested in one.  *)

Digits == <<"0","1","2","3","4","5","6","7","8","9">>
Digit(n) == Digits[n + 1]

Text(s) == NavigableString(s)
Newline == Text(<<"\n">>)
Classes(cls) == [class |-> cls, role |-> ""]

Lang(tag) == LanguagePrefix \o tag
Js == <<"j","s">>
Jinja2 == <<"j","i","n","j","a","2">>
PythonUpper == <<"P","Y","T","H","O","N">>
Unsupported == <<"u","n","s","u","p","p","o","r","t","e","d">>
Highlight == <<"h","i","g","h","l","i","g","h","t">>
Highlighttable == <<"h","i","g","h","l","i","g","h","t","t","a","b","l","e">>
DocumentClass == <<"d","o","c","u","m","e","n","t">>
SectionClass == <<"s","e","c","t","i","o","n">>

heading_names == <<"h1", "h2", "h3", "h4", "h5", "h6">>

Headings ==
    { Tag(heading_names[L], NoAttrs, <<Text(<<"T", Digit(L)>>)>>) : L \in 1..6 }
    \cup { Tag("h2", NoAttrs, <<Text(<<"a", " ">>),
                               Tag("em", NoAttrs, <<Text(<<"b">>)>>)>>) }

Paragraphs ==
    { Tag("p", NoAttrs, <<Text(<<"p">>)>>),
      Tag("p", NoAttrs, <<Text(<<"a">>), Tag("strong", NoAttrs, <<Text(<<"b">>)>>),
                          Text(<<" ">>)>>) }

\* The class lists of the code elements.
CodeClasses ==
    { <<>>, <<Lang(Js)>>, <<Lang(Jinja2)>>, <<Lang(PythonUpper)>>,
      <<Lang(Unsupported)>>, <<Highlight, Lang(Js)>>, <<LanguagePrefix>>,
      <<Highlight>> }

CodeElement(cls) == Tag("code", Classes(cls), <<Text(<<" ", "x", "=", "1", "\n">>)>>)

Pres ==
    { Tag("pre", NoAttrs, <<CodeElement(cls)>>) : cls \in CodeClasses }
    \cup { Tag("pre", NoAttrs, <<Text(<<"x">>)>>),
           Tag("pre", NoAttrs, <<>>),
           Tag("pre", NoAttrs, <<Tag("span", NoAttrs, <<>>), CodeElement(<<Lang(Js)>>)>>),
           Tag("pre", NoAttrs,
               <<Tag("code", Classes(<<Lang(Js)>>),
                     <<Tag("span", NoAttrs, <<Text(<<"x">>)>>), Text(<<"=", "1">>)>>)>>) }

BareCodes == { CodeElement(<<>>), CodeElement(<<Lang(Js)>>) }

Li(k) == Tag("li", NoAttrs, <<Text(<<"i", Digit(k)>>)>>)

\* An li holding a nested list of its own.
NestedLi(k) ==
    Tag("li", NoAttrs,
        <<Text(<<"i", Digit(k)>>),
          Tag("ul", NoAttrs, <<Tag("li", NoAttrs, <<Text(<<"n">>)>>)>>)>>)

\* The children of a list of n items: a newline before each li, as the
\* renderer writes them; nested tells whether the first li holds a list.
ListChildren(n, nested) ==
    Concat([k \in 1..n |->
              <<Newline, IF nested /\ k = 1 THEN NestedLi(k) ELSE Li(k)>>])

Lists ==
    { Tag(name, NoAttrs, ListChildren(n, nested)) :
        name \in {"ul", "ol"}, n \in 0..MaxItems, nested \in BOOLEAN }

Quotes ==
    { Tag("blockquote", NoAttrs,
          <<Newline, Tag("p", NoAttrs, <<Text(<<"q">>)>>), Newline>>) }

\* Elements no branch of the conversion names.
Others ==
    { Tag("div", NoAttrs, <<>>),
      Tag("div", NoAttrs, <<Tag("h1", NoAttrs, <<Text(<<"d">>)>>)>>),
      Tag("hr", NoAttrs, <<>>) }

Th(c) == Tag("th", NoAttrs, <<Text(<<"h", Digit(c)>>)>>)
Td(r, c) == Tag("td", NoAttrs, <<Text(<<Digit(r), Digit(c)>>)>>)
Tr(cells) == Tag("tr", NoAttrs, cells)

\* A header section of w header cells.
Thead(w) == Tag("thead", NoAttrs, <<Newline, Tr([c \in 1..w |-> Th(c)]), Newline>>)

\* A body section whose row r has widths[r] cells.
Tbody(widths) ==
    Tag("tbody", NoAttrs,
        [r \in 1..Len(widths) |-> Tr([c \in 1..widths[r] |-> Td(r, c)])])

RowWidths == UNION { [1..r -> 0..MaxCols] : r \in 0..MaxRows }

\* The sections of a table: none, or a header of 0..MaxCols cells; none, or
\* a body of 0..MaxRows rows.
TheadOptions == { <<>> } \cup { <<Thead(w)>> : w \in 0..MaxCols }
TbodyOptions == { <<>> } \cup { <<Tbody(widths)>> : widths \in RowWidths }

PlainTables ==
    { Tag("table", NoAttrs, head \o body) :
        head \in TheadOptions, body \in TbodyOptions }

\* The table of test_convert_html_to_blocks: rows with neither section.
SectionlessTable ==
    Tag("table", NoAttrs,
        <<Tr(<<Tag("th", NoAttrs, <<Text(<<"H">>)>>)>>), Tr(<<Td(1, 1)>>)>>)

\* The highlighted-code wrapper of test_table_code_highlight_language_validation.
HighlightRow(tag) ==
    Tr(<<Tag("td", Classes(<<<<"c","o","d","e">>>>),
             <<Tag("div", Classes(<<Highlight>>),
                   <<Tag("pre", NoAttrs, <<CodeElement(<<Lang(tag)>>)>>)>>)>>)>>)

HighlightTables ==
    { Tag("table", Classes(<<Highlighttable>>), <<Newline, HighlightRow(tag), Newline>>) :
        tag \in {Jinja2, Unsupported} }
    \cup { Tag("table", Classes(<<Highlighttable>>),
               <<Tag("tbody", NoAttrs, <<HighlightRow(Jinja2)>>)>>) }

Tables == PlainTables \cup {SectionlessTable} \cup HighlightTables

Elements ==
    Headings \cup Paragraphs \cup Pres \cup BareCodes \cup Lists \cup Quotes
    \cup Others \cup Tables

\* One element of every branch of the conversion, to be mixed as siblings.
Representatives ==
    { Newline,
      Tag("h1", NoAttrs, <<Text(<<"a">>)>>),
      Tag("h3", NoAttrs, <<Text(<<"c">>)>>),
      Tag("p", NoAttrs, <<Text(<<"b">>)>>),
      Tag("pre", NoAttrs, <<CodeElement(<<Lang(Js)>>)>>),
      Tag("ul", NoAttrs, ListChildren(MaxItems, FALSE)),
      Tag("blockquote", NoAttrs, <<Text(<<"q">>)>>),
      Tag("div", NoAttrs, <<Text(<<"d">>)>>),
      Tag("table", NoAttrs, <<Thead(1), Tbody(<<1>>)>>),
      Tag("table", NoAttrs, <<>>) }

SeqsUpTo(S, n) == UNION { [1..k -> S] : k \in 0..n }

\* The child sequences of a content root: every element alone, and the
\* representatives in every order, at most MaxChildren of them.
Bodies ==
    { <<e>> : e \in Elements } \cup SeqsUpTo(Representatives, MaxChildren)

\* The shapes a body reaches the conversion in.
Bare(body) == BeautifulSoup(body)

\* A plain enclosing div, as test_convert_html_to_blocks writes it.
InDiv(body) == BeautifulSoup(<<Newline, Tag("div", NoAttrs, body), Newline>>)

\* str(main_content) of on_post_build: the div with role 'main' ...
InMain(body) ==
    BeautifulSoup(<<Tag("div", [class |-> <<>>, role |-> "main"], body)>>)

\* ... which the ReadTheDocs theme gives class 'document' and a section div.
InMainDocument(body) ==
    BeautifulSoup(
        <<Tag("div", [class |-> <<DocumentClass>>, role |-> "main"],
              <<Newline, Tag("div", Classes(<<SectionClass>>), body), Newline>>)>>)

\* The document of test_convert_html_to_blocks.
TestDocument ==
    InDiv(<<Newline, Tag("h1", NoAttrs, <<Text(<<"D">>)>>),
            Newline, Tag("p", NoAttrs, <<Text(<<"I">>)>>),
            Newline, SectionlessTable,
            Newline, Tag("pre", NoAttrs, <<CodeElement(<<>>)>>), Newline>>)

Documents ==
    { Bare(body) : body \in Bodies }
    \cup { InDiv(body) : body \in Bodies }
    \cup { InMain(body) : body \in Bodies }
    \cup { InMainDocument(body) : body \in Bodies }
    \cup { TestDocument }

----------------------------------------------------------------------------
(* _convert_html_to_blocks, lines 120-237.                                 *)

\* lines 31-36: the plugin as __init__ leaves it, before on_config.
NoId == 0
EmptyWorkspace == [databases |-> <<>>, pages |-> <<>>]
NoSite == [site_name |-> <<>>, index |-> BeautifulSoup(<<>>), files |-> <<>>]

\* on_post_build before its first call: pc is its position, runs counts
\* the calls made so far and outcome tells how the last one ended; site is
\* the config and the built site directory of the call;
\* blocks, results, project_page, index_page, files (what is left of the
\* rglob loop) and i are its locals; created, rows_created and failed
\* record what the call has done: the pages it stored, the project rows
\* it created, the indexes whose navigation failed.
NotBuilding ==
    [pc |-> "idle", runs |-> 0, outcome |-> "none", site |-> NoSite,
     blocks |-> <<>>, results |-> <<>>, project_page |-> NoId,
     index_page |-> NoId, files |-> <<>>, i |-> 0,
     created |-> <<>>, rows_created |-> 0, failed |-> {}]

\* _create_docs_table before its first call: pc is its position and runs
\* counts the calls; results is the answer of the search, k the place of
\* the loop in it, before the workspace as the call found it.
NotSetUp ==
    [pc |-> "idle", runs |-> 0, results |-> <<>>, k |-> 0,
     before |-> EmptyWorkspace]

Init ==
    /\ html_content \in Documents
    /\ main_content = NoTag
    /\ idx = 0
    /\ blocks = <<>>
    /\ pc = "start"
    /\ pages = <<>>
    /\ database_id = NoId
    /\ notion = EmptyWorkspace
    /\ calls = <<>>
    /\ build = NotBuilding
    /\ setup = NotSetUp

\* lines 125-128: the section div of the div with role 'main' and class
\* 'document', or else the whole soup.
MainContent(soup) ==
    LET document == find_attrs(soup, "div", "main", DocumentClass)
        section == IF document # NoTag
                   THEN find_attrs(document, "div", "", SectionClass)
                   ELSE NoTag
    IN  IF section = NoTag THEN soup ELSE section

\* lines 122-131
FindMainContent ==
    /\ pc = "start"
    /\ main_content' = MainContent(html_content)
    /\ idx' = 0
    /\ blocks' = <<>>
    /\ pc' = "loop"
    /\ UNCHANGED <<html_content, others>>

\* The element the for loop of line 133 is at.
InLoop == pc = "loop" /\ idx < Len(main_content.children)
element == main_content.children[idx + 1]

\* Appended with the new blocks put in front: insert(0, ...) for append.
Prepended(list, new) == new \o list

\* lines 192 and 233: blocks.append, for every block an element yields.
Appended(list, new) == list \o new

\* One iteration that ends without raising, new being what it appends.
Iterate(new) ==
    /\ blocks' = Appended(blocks, new)
    /\ idx' = idx + 1
    /\ UNCHANGED <<html_content, main_content, pc, others>>

\* lines 134-135
SkipTextNode ==
    /\ InLoop
    /\ element.name = NoName
    /\ Iterate(<<>>)

\* lines 139-144
ConvertH1 ==
    /\ InLoop
    /\ element.name = "h1"
    /\ Iterate(<<heading_1_block(element)>>)

\* lines 145-150
ConvertH2 ==
    /\ InLoop
    /\ element.name = "h2"
    /\ Iterate(<<heading_2_block(element)>>)

\* lines 151-156
ConvertP ==
    /\ InLoop
    /\ element.name = "p"
    /\ Iterate(<<paragraph_block(element)>>)

\* lines 157-183
ConvertPre ==
    /\ InLoop
    /\ element.name = "pre"
    /\ Iterate(pre_blocks(element))

\* lines 184-194
ConvertList ==
    /\ InLoop
    /\ element.name \in {"ul", "ol"}
    /\ Iterate(list_blocks(element))

\* lines 195-200
ConvertBlockquote ==
    /\ InLoop
    /\ element.name = "blockquote"
    /\ Iterate(<<quote_block(element)>>)

\* lines 201-230
ConvertTable ==
    /\ InLoop
    /\ element.name = "table"
    /\ ~table_raises(element)
    /\ Iterate(<<table_block(element)>>)

\* line 221, rows[0] of no rows: the IndexError leaves the function.
TableIndexError ==
    /\ InLoop
    /\ element.name = "table"
    /\ table_raises(element)
    /\ pc' = "raised"
    /\ UNCHANGED <<html_content, main_content, idx, blocks, others>>

\* The names the if/elif chain of lines 139-201 tests for.
ClaimedNames == {"h1", "h2", "p", "pre", "ul", "ol", "blockquote", "table"}

\* DropElement with a final else that makes a paragraph of the element.
DropElementAsParagraph ==
    /\ InLoop
    /\ element.name \notin ClaimedNames \cup {NoName}
    /\ Iterate(<<paragraph_block(element)>>)

\* No branch taken: block stays None and line 232 appends nothing.
DropElement ==
    /\ InLoop
    /\ element.name \notin ClaimedNames \cup {NoName}
    /\ Iterate(<<>>)

\* lines 236-237
Return ==
    /\ pc = "loop"
    /\ idx = Len(main_content.children)
    /\ pc' = "done"
    /\ UNCHANGED <<html_content, main_content, idx, blocks, others>>

Next ==
    \/ FindMainContent
    \/ SkipTextNode
    \/ ConvertH1
    \/ ConvertH2
    \/ ConvertP
    \/ ConvertPre
    \/ ConvertList
    \/ ConvertBlockquote
    \/ ConvertTable
    \/ TableIndexError
    \/ DropElement
    \/ Return

Spec == Init /\ [][Next]_vars

----------------------------------------------------------------------------
(* What the specification expects of the conversion.                       *)

\* The blocks already emitted are kept and new is what one iteration adds.
Emits(new) == pc' = "loop" /\ idx' = idx + 1 /\ blocks' = blocks \o new

\* One iteration adds exactly one block, LastBlock', and raises nothing.
EmitsOne ==
    /\ pc' = "loop"
    /\ idx' = idx + 1
    /\ Len(blocks') = Len(blocks) + 1
    /\ SubSeq(blocks', 1, Len(blocks)) = blocks
LastBlock == blocks[Len(blocks)]

\* The children of a node that are elements, in order.
ElementChildren(node) == SelectSeq(node.children, LAMBDA d : d.name # NoName)

\* The source level of a heading element.
IsHeading(e) == \E L \in 1..6 : heading_names[L] = e.name
HeadingLevel(e) == CHOOSE L \in 1..6 : heading_names[L] = e.name

Min(a, b) == IF a <= b THEN a ELSE b

\* The heading block of a level in 1..3.
ExpectedHeading(level, text) ==
    CASE level = 1 -> [object |-> "block", type |-> "heading_1",
                       heading_1 |-> [rich_text |-> rich_text(text)]]
      [] level = 2 -> [object |-> "block", type |-> "heading_2",
                       heading_2 |-> [rich_text |-> rich_text(text)]]
      [] level = 3 -> [object |-> "block", type |-> "heading_3",
                       heading_3 |-> [rich_text |-> rich_text(text)]]

\* C1: while the loop is at a heading element of source level L in 1..6,
\* the iteration emits exactly one heading block, of level min(L, 3) and
\* with the element's descendant text; h4, h5 and h6 give heading_3.
C1_HeadingLevels ==
    [][(InLoop /\ IsHeading(element))
        => Emits(<<ExpectedHeading(Min(HeadingLevel(element), 3),
                                   get_text(element))>>)]_vars

\* The conversion of one child of the content root, by the element's name.
Conversion(e) ==
    CASE e.name = "h1" -> <<heading_1_block(e)>>
      [] e.name = "h2" -> <<heading_2_block(e)>>
      [] e.name = "p" -> <<paragraph_block(e)>>
      [] e.name = "pre" -> pre_blocks(e)
      [] e.name \in {"ul", "ol"} -> list_blocks(e)
      [] e.name = "blockquote" -> <<quote_block(e)>>
      [] e.name = "table" -> <<table_block(e)>>
      [] OTHER -> <<>>

\* The elements among the first n children of the content root.
ConvertedChildren(n) == ElementChildren([main_content EXCEPT !.children = SubSeq(@, 1, n)])

\* C2: the blocks built so far, and so the sequence returned, are the
\* in-order concatenation of the conversions of the content root's
\* immediate element children: a text node and an element no branch claims
\* add nothing, and no descendant of a child is converted on its own.
C2_DocumentOrder ==
    pc \in {"loop", "done"} =>
        LET converted == ConvertedChildren(idx)
        IN  /\ blocks = Concat([k \in 1..Len(converted) |-> Conversion(converted[k])])
            /\ \A k \in 1..idx :
                 main_content.children[k].name \notin ClaimedNames
                 => Conversion(main_content.children[k]) = <<>>
            /\ pc = "done" => idx = Len(main_content.children)

\* C2 witness: a sequence is returned for a content root of MaxChildren
\* children, a pre with its code first and a different claimed element
\* after it, and the code block comes first in it.
C2_Witness ==
    /\ pc = "done"
    /\ Len(main_content.children) = MaxChildren
    /\ main_content.children[1].name = "pre"
    /\ main_content.children[2].name \in ClaimedNames \ {"pre"}
    /\ Len(blocks) >= 2
    /\ blocks[1].type = "code"
    /\ blocks[2].type # "code"

\* The language normalizer of the specification: case-folded, aliases
\* mapped, anything else that is not a supported identifier to 'plain text'.
Html == <<"h","t","m","l">>
Javascript == <<"j","a","v","a","s","c","r","i","p","t">>
Python == <<"p","y","t","h","o","n">>
SupportedLanguages == {Html, Javascript, Python, PlainText}

Normalize(tag) ==
    LET folded == Lower(tag)
    IN  IF folded = Jinja2 THEN Html
        ELSE IF folded = Js THEN Javascript
        ELSE IF folded \in SupportedLanguages THEN folded
        ELSE PlainText

\* C3: while the loop is at a pre holding a code element, the iteration
\* emits one code block whose language is normalize(tag), tag being the X
\* of the code element's class 'language-X' ('' when it has none).
C3_NormalizedLanguage ==
    [][(InLoop /\ element.name = "pre" /\ find(element, "code") # NoTag)
        => /\ EmitsOne
           /\ LastBlock'.type = "code"
           /\ LastBlock'.code.language =
                  Normalize(ClassLanguage(find(element, "code").attrs.class))]_vars

\* The sections and cells of a table, read child by child: the header
\* cells (th) of the rows of its thead, and the data cells (td) of each row
\* of its tbody.
HasHeaderSection(e) == find_all_children(e, "thead") # <<>>
HasBodySection(e) == find_all_children(e, "tbody") # <<>>

CellTexts(tr, name) ==
    LET cells == find_all_children(tr, name)
    IN  [c \in 1..Len(cells) |-> get_text(cells[c])]

HeaderCells(e) ==
    LET trs == find_all_children(Head(find_all_children(e, "thead")), "tr")
    IN  Concat([r \in 1..Len(trs) |-> CellTexts(trs[r], "th")])

BodyRows(e) ==
    IF HasBodySection(e)
    THEN LET trs == find_all_children(Head(find_all_children(e, "tbody")), "tr")
         IN  [r \in 1..Len(trs) |-> CellTexts(trs[r], "td")]
    ELSE <<>>

\* The rows of a table that are not rows of its header section.
RowsOutsideHeader(e) ==
    Len(find_all(e, "tr"))
    - (IF HasHeaderSection(e)
       THEN Len(find_all(Head(find_all_children(e, "thead")), "tr")) ELSE 0)

IsHighlightTable(e) == e.name = "table" /\ HasClass(e, Highlighttable)
IsPlainTable(e) == e.name = "table" /\ ~HasClass(e, Highlighttable)

\* An element a branch claims that lacks what the branch looks for: a pre
\* with no code element in it, a table with no row, with or without a
\* header section.
LacksSubStructure(e) ==
    \/ e.name = "pre" /\ find(e, "code") = NoTag
    \/ e.name = "table" /\ RowsOutsideHeader(e) = 0

\* C4: while the loop is at an element that lacks its expected
\* sub-structure, the iteration emits no block and raises nothing, and the
\* loop goes on to the next sibling.
C4_MissingSubStructure ==
    [][(InLoop /\ LacksSubStructure(element)) => Emits(<<>>)]_vars

\* The cell texts of a table_row block.
RowTexts(row) ==
    [c \in 1..Len(row.table_row.cells) |-> row.table_row.cells[c][1].text.content]

\* One iteration emits one table block for element: of the width and the
\* header flag given, and with exactly the rows given, each with its own
\* cells.
EmitsTable(width, has_header, rows) ==
    /\ EmitsOne
    /\ LastBlock'.type = "table"
    /\ LastBlock'.table.table_width = width
    /\ LastBlock'.table.has_column_header = has_header
    /\ Len(LastBlock'.table.children) = Len(rows)
    /\ \A r \in 1..Len(rows) :
         /\ LastBlock'.table.children[r].type = "table_row"
         /\ RowTexts(LastBlock'.table.children[r]) = rows[r]

\* A table with a header section, of at least min header cells.
HeaderTableAt(min) ==
    /\ InLoop
    /\ IsPlainTable(element)
    /\ HasHeaderSection(element)
    /\ Len(HeaderCells(element)) >= min

\* C5, as claimed: a table with a header section of W header cells and R
\* body rows gives one table block of table_width W, has_column_header true
\* and R+1 rows, the header row and then the body rows, each with its own
\* cells.
C5_HeaderTable_Claimed ==
    [][HeaderTableAt(0)
        => EmitsTable(Len(HeaderCells(element)), TRUE,
                      <<HeaderCells(element)>> \o BodyRows(element))]_vars

\* C5, amended: the same of a table whose header section has W >= 1
\* header cells.
C5_HeaderTable ==
    [][HeaderTableAt(1)
        => EmitsTable(Len(HeaderCells(element)), TRUE,
                      <<HeaderCells(element)>> \o BodyRows(element))]_vars

\* The element the loop has just converted.
Converted == main_content.children[idx]

\* C5 witness: a table with a header and two body rows, one of them not as
\* wide as the header, has been converted to a table block of three rows.
C5_Witness ==
    /\ pc = "loop" /\ idx >= 1
    /\ IsPlainTable(Converted)
    /\ HasHeaderSection(Converted)
    /\ Len(HeaderCells(Converted)) = MaxCols
    /\ Len(BodyRows(Converted)) = 2
    /\ \E r \in 1..2 : Len(BodyRows(Converted)[r]) # MaxCols
    /\ blocks # <<>>
    /\ LastBlock.type = "table"
    /\ Len(LastBlock.table.children) = 3

C7_HighlightTable ==
    [][(InLoop /\ IsHighlightTable(element) /\ find(element, "code") # NoTag)
        => /\ EmitsOne
           /\ LastBlock'.type = "code"
           /\ LastBlock'.code.language =
                  Normalize(ClassLanguage(find(element, "code").attrs.class))]_vars

\* The element names some converter of the specification claims.
RecognizedNames ==
    {"h1", "h2", "h3", "h4", "h5", "h6", "p", "pre", "code", "ul", "ol",
     "blockquote", "table"}

RecognizedChildren(node) ==
    SelectSeq(node.children, LAMBDA d : d.name \in RecognizedNames)

\* C8: the conversion of a content root with no recognized child (none at
\* all, or only text and elements such as an empty div) raises nothing and
\* has the empty sequence to return.
C8_EmptyDocument ==
    (pc # "start" /\ RecognizedChildren(main_content) = <<>>)
        => (pc # "raised" /\ blocks = <<>>)

\* C8 witness: the conversion of a document that holds elements, none of
\* them recognized, has returned.
C8_Witness ==
    /\ pc = "done"
    /\ ElementChildren(main_content) # <<>>
    /\ RecognizedChildren(main_content) = <<>>
    /\ blocks = <<>>

\* The list-item block of the specification.
ExpectedListItem(ordered, text) ==
    IF ordered
    THEN [object |-> "block", type |-> "numbered_list_item",
          numbered_list_item |-> [rich_text |-> rich_text(text)]]
    ELSE [object |-> "block", type |-> "bulleted_list_item",
          bulleted_list_item |-> [rich_text |-> rich_text(text)]]

\* The li children of a list.
DirectItems(e) == SelectSeq(e.children, LAMBDA d : d.name = "li")

\* C9: while the loop is at a ul or ol with N direct li children, the
\* iteration appends exactly N list-item blocks, in source order, numbered
\* for ol and bulleted for ul, each with its item's descendant text;
\* nothing else is emitted, neither a list block nor a block for an li of a
\* list nested in an item.
C9_ListItems ==
    [][(InLoop /\ element.name \in {"ul", "ol"})
        => Emits([k \in 1..Len(DirectItems(element)) |->
                    ExpectedListItem(element.name = "ol",
                                     get_text(DirectItems(element)[k]))])]_vars

\* C9 witness: an ol of MaxItems items, the first holding a nested list,
\* has been converted to MaxItems numbered items.
C9_Witness ==
    /\ pc = "loop" /\ idx >= 1
    /\ Converted.name = "ol"
    /\ Len(DirectItems(Converted)) = MaxItems
    /\ Len(find_all(Converted, "li")) > MaxItems
    /\ Len(blocks) = MaxItems
    /\ \A k \in 1..MaxItems : blocks[k].type = "numbered_list_item"

\* The block types the specification gives a recognized element.
RECURSIVE Repeat(_, _)
Repeat(x, n) == IF n = 0 THEN <<>> ELSE <<x>> \o Repeat(x, n - 1)

ExpectedTypes(e) ==
    CASE e.name = "h1" -> <<"heading_1">>
      [] e.name = "h2" -> <<"heading_2">>
      [] e.name \in {"h3", "h4", "h5", "h6"} -> <<"heading_3">>
      [] e.name = "p" -> <<"paragraph">>
      [] e.name \in {"pre", "code"} -> <<"code">>
      [] e.name = "blockquote" -> <<"quote">>
      [] e.name = "table" -> <<"table">>
      [] e.name = "ul" -> Repeat("bulleted_list_item", Len(DirectItems(e)))
      [] e.name = "ol" -> Repeat("numbered_list_item", Len(DirectItems(e)))
      [] OTHER -> <<>>

\* The input is one enclosing div around the content: the only element of
\* the document, with a recognized child.
EnclosingDiv(soup) == Head(ElementChildren(soup))
IsEnclosed(soup) ==
    /\ Len(ElementChildren(soup)) = 1
    /\ EnclosingDiv(soup).name = "div"
    /\ RecognizedChildren(EnclosingDiv(soup)) # <<>>

\* C10: the conversion of content wrapped in one enclosing div does not
\* raise, and what it returns is not empty: it holds the blocks of the
\* recognized children of the div, in order.
C10_EnclosingDiv ==
    IsEnclosed(html_content) =>
        /\ pc # "raised"
        /\ pc = "done" =>
             LET content == RecognizedChildren(EnclosingDiv(html_content))
             IN  /\ blocks # <<>>
                 /\ [k \in 1..Len(blocks) |-> blocks[k].type]
                      = Concat([k \in 1..Len(content) |-> ExpectedTypes(content[k])])

\* C11: while the loop is at a bare code element, one that is a child of
\* the content root and not inside a pre, the iteration emits one code
\* block, as for a pre holding a code element; its language is 'plain
\* text' when the element has no class 'language-X'.
C11_BareCode ==
    [][(InLoop /\ element.name = "code")
        => /\ EmitsOne
           /\ LastBlock'.type = "code"
           /\ ClassLanguage(element.attrs.class) = <<>>
                => LastBlock'.code.language = PlainText]_vars

\* The block types of the output schema.
BlockTypes ==
    {"heading_1", "heading_2", "heading_3", "paragraph", "code",
     "bulleted_list_item", "numbered_list_item", "quote", "table"}

\* A block of the output schema: the constant tag, a type of the schema and
\* the payload under the key that is the type.
WellFormed(block) ==
    /\ block.object = "block"
    /\ block.type \in BlockTypes
    /\ block.type \in DOMAIN block

\* C12: every block built has object 'block', a type of the schema and its
\* payload under the key equal to its type; every table block has
\* has_row_header false and a table_width of at least 1.
C12_BlockSchema ==
    \A k \in 1..Len(blocks) :
        /\ WellFormed(blocks[k])
        /\ blocks[k].type = "table"
             => /\ blocks[k].table.has_row_header = FALSE
                /\ blocks[k].table.table_width >= 1

\* ---------------------------------------------------------------------
\* Conversions running side by side on one plugin instance.
\* _convert_html_to_blocks keeps everything it works on in locals
\* (soup, main_content, blocks; lines 122-131): each call is a record of
\* those locals, and one step of one call is one step of the method.

Callers == {1, 2}

\* lines 120-131: a call with its argument, before its first statement.
call(html) ==
    [html_content |-> html, main_content |-> NoTag, idx |-> 0,
     blocks |-> <<>>, pc |-> "start"]

\* lines 122-131: parse, choose the main content, blocks = [].
call_start(c) ==
    [c EXCEPT !.main_content = MainContent(c.html_content),
              !.idx = 0, !.blocks = <<>>, !.pc = "loop"]

\* lines 133-235: one pass of the loop body; line 221 raises out of the
\* call.
call_iterate(c) ==
    LET e == c.main_content.children[c.idx + 1]
    IN  IF e.name = "table" /\ table_raises(e)
        THEN [c EXCEPT !.pc = "raised"]
        ELSE [c EXCEPT !.blocks = Appended(@, Conversion(e)),
                       !.idx = @ + 1]

\* line 237: return blocks.
call_return(c) == [c EXCEPT !.pc = "done"]

call_running(c) == c.pc \in {"start", "loop"}

call_step(c) ==
    IF c.pc = "start" THEN call_start(c)
    ELSE IF c.idx < Len(c.main_content.children) THEN call_iterate(c)
    ELSE call_return(c)

\* A variant keeping the block list on the instance, where every call
\* running at the time sees the list the last writer left.
StoreCallShared(cs, t, c) ==
    [u \in DOMAIN cs |->
        IF u = t THEN c
        ELSE IF call_running(cs[u]) THEN [cs[u] EXCEPT !.blocks = c.blocks]
        ELSE cs[u]]

\* The locals of call t are its own: a step of t writes t's frame only.
StoreCall(cs, t, c) == [cs EXCEPT ![t] = c]

\* The call run on its own, from its first statement to its end.
RECURSIVE RunAlone(_)
RunAlone(c) == IF call_running(c) THEN RunAlone(call_step(c)) ELSE c

ConcurrentSiblings ==
    { Tag("h1", NoAttrs, <<Text(<<"a">>)>>),
      Tag("ul", NoAttrs, <<Li(1)>>),
      Tag("table", NoAttrs, <<>>) }

ConcurrentDocuments ==
    { Bare(b) : b \in SeqsUpTo(ConcurrentSiblings, MaxChildren) }

\* lines 401-404: a page stored by an earlier build.
StoredPage(title, id) == [title |-> title, notion_id |-> id]

ConfiguredId == 1

StoredPages == <<StoredPage(<<"i", "n", "d", "e", "x">>, ConfiguredId)>>

ConcurrentInit ==
    /\ calls \in [Callers -> { call(h) : h \in ConcurrentDocuments }]
    /\ pages = StoredPages
    /\ database_id = ConfiguredId
    /\ notion = EmptyWorkspace
    /\ build = NotBuilding
    /\ setup = NotSetUp
    /\ html_content = BeautifulSoup(<<>>)
    /\ main_content = NoTag
    /\ idx = 0
    /\ blocks = <<>>
    /\ pc = "done"

CallFrame == <<html_content, main_content, idx, blocks, pc>>

CallStart(t) ==
    /\ calls[t].pc = "start"
    /\ calls' = StoreCall(calls, t, call_start(calls[t]))
    /\ UNCHANGED <<CallFrame, pages, database_id, notion, build, setup>>

CallIterate(t) ==
    /\ calls[t].pc = "loop"
    /\ calls[t].idx < Len(calls[t].main_content.children)
    /\ calls' = StoreCall(calls, t, call_iterate(calls[t]))
    /\ UNCHANGED <<CallFrame, pages, database_id, notion, build, setup>>

CallReturn(t) ==
    /\ calls[t].pc = "loop"
    /\ calls[t].idx = Len(calls[t].main_content.children)
    /\ calls' = StoreCall(calls, t, call_return(calls[t]))
    /\ UNCHANGED <<CallFrame, pages, database_id, notion, build, setup>>

ConcurrentNext ==
    \E t \in Callers :
        \/ CallStart(t)
        \/ CallIterate(t)
        \/ CallReturn(t)

SpecConcurrent == ConcurrentInit /\ [][ConcurrentNext]_vars

\* C13: a conversion leaves the stored pages, the database id and the
\* workspace as they were, and however the steps of two conversions
\* interleave, a call that has ended (returned or raised) holds exactly
\* what the same call holds when it runs alone.
C13_Independent ==
    /\ pages = StoredPages
    /\ database_id = ConfiguredId
    /\ notion = EmptyWorkspace
    /\ \A t \in Callers :
        ~call_running(calls[t])
            => calls[t] = RunAlone(call(calls[t].html_content))

\* Both calls are in the middle of their loops at once, on different
\* documents, each having built a block already.
C13_Witness ==
    /\ calls[1].html_content # calls[2].html_content
    /\ \A t \in Callers :
        /\ calls[t].pc = "loop"
        /\ calls[t].idx < Len(calls[t].main_content.children)
        /\ calls[t].blocks # <<>>

\* ---------------------------------------------------------------------
\* on_post_build: publishing a built site to the workspace.

MaxRuns == 2        \* on_post_build calls on one plugin instance

UpperChar(c) ==
    IF \E k \in 1..Len(LowerCase) : LowerCase[k] = c
    THEN UpperCase[CHOOSE k \in 1..Len(LowerCase) : LowerCase[k] = c]
    ELSE c

IsCased(c) == UpperChar(c) # c \/ LowerChar(c) # c

\* str.title(): a cased character is upper case after an uncased one
\* and at the start, lower case after a cased one.
title_case(s) ==
    [k \in 1..Len(s) |->
        IF k = 1 \/ ~IsCased(s[k - 1]) THEN UpperChar(s[k])
        ELSE LowerChar(s[k])]

\* str.split(sep)[0]
RECURSIVE split_first(_, _)
split_first(s, sep) ==
    IF s = <<>> \/ StartsWith(s, sep) THEN <<>>
    ELSE <<Head(s)>> \o split_first(Tail(s), sep)

\* Tag.find(name, {'role': role}) of lines 324 and 420.
find_role(node, name, role) ==
    LET found == SelectSeq(find_all(node, name),
                           LAMBDA d : d.attrs.role = role)
    IN  IF found = <<>> THEN NoTag ELSE Head(found)

IndexStem == <<"i", "n", "d", "e", "x">>

\* lines 98-118: _get_page_title(soup, relative_path); file gives the
\* stem of the path and the name of its directory.
get_page_title(soup, file) ==
    LET h1 == find(soup, "h1")
        title == find(soup, "title")
        cleaned(name) ==
            title_case(Replace(Replace(name, <<"-">>, <<" ">>),
                               <<"_">>, <<" ">>))
    IN  IF h1 # NoTag THEN Strip(get_text(h1))
        ELSE IF title # NoTag
             THEN split_first(Strip(get_text(title)), <<" ", "-", " ">>)
        ELSE IF file.stem = IndexStem THEN cleaned(file.parent)
        ELSE cleaned(file.stem)

\* lines 331 and 431: self._convert_html_to_blocks(str(main_content)),
\* the call run from its first statement to its return or its raise.
convert_html_to_blocks(main) == RunAlone(call(BeautifulSoup(<<main>>)))

\* The workspace keeps its pages in creation order; the id of a page is
\* its place in notion.pages.  A page is a row of a database or a child
\* of a page.  (The Last Updated date of a row is datetime.now() and is
\* left out.)
page(parent, properties, children) ==
    [parent |-> parent, properties |-> properties, archived |-> FALSE,
     children |-> children]

\* notion.pages.create(...)
pages_create(ws, new) == [ws EXCEPT !.pages = Append(@, new)]

\* ... and the id of the page it returns.
created_id(ws) == Len(ws.pages) + 1

\* notion.pages.update(id, archived=True)
pages_update_archived(ws, id) == [ws EXCEPT !.pages[id].archived = TRUE]

\* notion.blocks.children.append(block_id=id, children=new)
blocks_children_append(ws, id, new) ==
    [ws EXCEPT !.pages[id].children = @ \o new]

IsRowOf(p, db) == "database_id" \in DOMAIN p.parent /\ p.parent.database_id = db

\* lines 334-352: notion.databases.query with the filter Name equals
\* name and Version equals version; the workspace answers with the rows
\* that are not archived.
databases_query(ws, db, name, version) ==
    SelectSeq([k \in 1..Len(ws.pages) |-> k],
              LAMBDA k : /\ IsRowOf(ws.pages[k], db)
                         /\ ~ws.pages[k].archived
                         /\ ws.pages[k].properties.Name = name
                         /\ ws.pages[k].properties.Version = version)

\* A variant of lines 377-381 that leaves the row found in place.
keep_existing(ws, results) == ws

\* lines 377-381: if results: archive results[0].
archive_existing(ws, results) ==
    IF results # <<>> THEN pages_update_archived(ws, results[1]) ELSE ws

\* lines 244-248 and 300-304
divider_block == [object |-> "block", type |-> "divider"]

\* lines 251-261
navigation_heading ==
    [object |-> "block", type |-> "heading_3",
     heading_3 |-> [rich_text |-> rich_text(<<"Navigation">>)]]

\* lines 266-279 and 283-296: the paragraph whose second text links to
\* https://www.notion.so/<notion_id>#internal.
link_block(label, title, target) ==
    [object |-> "block", type |-> "paragraph",
     paragraph |-> [rich_text |-> rich_text(label) \o
                       <<[text |-> [content |-> title, link |-> target]]>>]]

\* lines 239-306: _add_navigation_block(current_index) over self.pages.
add_navigation_block(ps, current_index) ==
    <<divider_block, navigation_heading>>
    \o (IF current_index > 0
        THEN <<link_block(<<"Previous">>, ps[current_index].title,
                          ps[current_index].notion_id)>>
        ELSE <<>>)
    \o (IF current_index < Len(ps) - 1
        THEN <<link_block(<<"Next">>, ps[current_index + 2].title,
                          ps[current_index + 2].notion_id)>>
        ELSE <<>>)
    \o <<divider_block>>

\* The pages a navigation block links to.
LinkTargets(nav_blocks) ==
    { nav_blocks[k].paragraph.rich_text[2].text.link :
        k \in { j \in 1..Len(nav_blocks) : nav_blocks[j].type = "paragraph" } }

\* The configuration: config['site_name'] of a build and self.version.
Docs == <<"D", "o", "c", "s">>
Api == <<"A", "p", "i">>
Version == <<"1", ".", "0">>
OtherVersion == <<"0", ".", "9">>

\* The documents of a built site.
HomePage ==
    InMainDocument(<<Tag("h1", NoAttrs, <<Text(<<" ", "H", "o", "m", "e">>)>>),
             Tag("p", NoAttrs, <<Text(<<"p">>)>>)>>)
TitledPage ==
    BeautifulSoup(
        <<Tag("title", NoAttrs, <<Text(<<"A", "P", "I", " ", "-", " ", "D">>)>>),
          Tag("div", [class |-> <<>>, role |-> "main"],
              <<Tag("p", NoAttrs, <<Text(<<"t">>)>>)>>)>>)
PlainPage == InMain(<<Tag("h2", NoAttrs, <<Text(<<"g">>)>>)>>)
NoMainPage == Bare(<<Tag("p", NoAttrs, <<Text(<<"n">>)>>)>>)
RaisingPage == InMainDocument(<<Tag("table", NoAttrs, <<>>)>>)

\* The files site_dir.rglob('*.html') yields.
File(parent, stem, soup) == [parent |-> parent, stem |-> stem, soup |-> soup]
IndexFile(soup) == File(<<>>, IndexStem, soup)
GuideFile == File(<<>>, <<"u", "s", "e", "r", "-", "g", "u", "i", "d", "e">>, PlainPage)
ApiFile == File(<<"a", "p", "i", "_", "r", "e", "f">>, IndexStem, TitledPage)
NotFoundFile == File(<<>>, <<"4", "0", "4">>, NoMainPage)
NoMainFile == File(<<>>, <<"r", "a", "w">>, NoMainPage)
RaisingFile == File(<<>>, <<"t", "a", "b", "l", "e">>, RaisingPage)

Site(site_name, index, files) ==
    [site_name |-> site_name, index |-> index, files |-> files]

Sites ==
    { Site(Docs, HomePage, <<IndexFile(HomePage), GuideFile>>),
      Site(Api, PlainPage, <<NotFoundFile, ApiFile, NoMainFile>>),
      Site(Docs, HomePage, <<RaisingFile, IndexFile(HomePage)>>),
      Site(Docs, NoMainPage, <<IndexFile(NoMainPage)>>),
      Site(Api, RaisingPage, <<IndexFile(RaisingPage)>>) }

\* The projects table of on_config, holding no row of this version.
ProjectRow(db, name, version) ==
    page([database_id |-> db], [Name |-> name, Version |-> version], <<>>)

\* self.parent_page_id and a page that is not it.
ParentPage == "parent_page_id"
OtherPage == "other_page_id"

Projects == <<"Projects">>

\* line 56
required_props == {"Name", "Version", "Last Updated"}

\* A database of the workspace; its id is its place in notion.databases.
database(title, parent, properties) ==
    [title |-> title, parent |-> [page_id |-> parent],
     properties |-> properties, archived |-> FALSE]

Workspaces ==
    { [databases |-> <<database(Projects, ParentPage, required_props)>>,
       pages |-> rows] :
        rows \in { <<>>, <<ProjectRow(ConfiguredId, Docs, OtherVersion)>> } }

BuildInit ==
    /\ pages = <<>>
    /\ database_id = ConfiguredId
    /\ notion \in Workspaces
    /\ build = NotBuilding
    /\ calls = <<>>
    /\ setup = NotSetUp
    /\ html_content = BeautifulSoup(<<>>)
    /\ main_content = NoTag
    /\ idx = 0
    /\ blocks = <<>>
    /\ pc = "done"

\* What on_post_build leaves alone.
BuildFrame == <<CallFrame, calls, setup, database_id>>

\* How a call ends: by return or by an exception leaving it.
Ended(b, outcome) == [b EXCEPT !.pc = "idle", !.outcome = outcome]

\* lines 312-322: the call begins and reads index.html.
StartBuild(site) ==
    /\ build.pc = "idle"
    /\ build.runs < MaxRuns
    /\ build' = [NotBuilding EXCEPT !.pc = "index", !.runs = build.runs + 1,
                                    !.site = site]
    /\ UNCHANGED <<pages, notion, BuildFrame>>

index_main == find_role(build.site.index, "div", "main")

\* lines 324-328: no main content in index.html, warning and return.
IndexWithoutMain ==
    /\ build.pc = "index"
    /\ index_main = NoTag
    /\ build' = Ended(build, "returned")
    /\ UNCHANGED <<pages, notion, BuildFrame>>

\* line 331: the conversion of the index page raises.
IndexRaises ==
    /\ build.pc = "index"
    /\ index_main # NoTag
    /\ convert_html_to_blocks(index_main).pc = "raised"
    /\ build' = Ended(build, "raised")
    /\ UNCHANGED <<pages, notion, BuildFrame>>

\* line 331
ConvertIndex ==
    /\ build.pc = "index"
    /\ index_main # NoTag
    /\ convert_html_to_blocks(index_main).pc = "done"
    /\ build' = [build EXCEPT !.blocks = convert_html_to_blocks(index_main).blocks,
                              !.pc = "query"]
    /\ UNCHANGED <<pages, notion, BuildFrame>>

\* lines 334-352
QueryProjects ==
    /\ build.pc = "query"
    /\ build' = [build EXCEPT
                   !.results = databases_query(notion, database_id,
                                               build.site.site_name, Version),
                   !.pc = "archive"]
    /\ UNCHANGED <<pages, notion, BuildFrame>>

\* lines 377-381
ArchiveExisting ==
    /\ build.pc = "archive"
    /\ notion' = archive_existing(notion, build.results)
    /\ build' = [build EXCEPT !.pc = "create_project"]
    /\ UNCHANGED <<pages, BuildFrame>>

\* lines 384-388
CreateProject ==
    /\ build.pc = "create_project"
    /\ notion' = pages_create(notion, ProjectRow(database_id,
                                          build.site.site_name, Version))
    /\ build' = [build EXCEPT !.project_page = created_id(notion),
                              !.rows_created = @ + 1,
                              !.pc = "create_index"]
    /\ UNCHANGED <<pages, BuildFrame>>

\* lines 391-406: the index page under the project, stored for the
\* navigation; then the loop over the files begins.
CreateIndex ==
    /\ build.pc = "create_index"
    /\ notion' = pages_create(notion,
                    page([page_id |-> build.project_page],
                         [title |-> build.site.site_name], build.blocks))
    /\ pages' = Append(pages, StoredPage(build.site.site_name, created_id(notion)))
    /\ build' = [build EXCEPT
                   !.index_page = created_id(notion),
                   !.created = Append(@, StoredPage(build.site.site_name,
                                                    created_id(notion))),
                   !.files = build.site.files,
                   !.pc = "files"]
    /\ UNCHANGED BuildFrame

InFiles == build.pc = "files" /\ build.files # <<>>
html_file == Head(build.files)
UtilityStems == { <<"4", "0", "4">>, <<"s", "e", "a", "r", "c", "h">> }
file_main == find_role(html_file.soup, "div", "main")

NextFile(b) == [b EXCEPT !.files = Tail(@)]

\* lines 409-410
SkipUtility ==
    /\ InFiles
    /\ html_file.stem \in UtilityStems
    /\ build' = NextFile(build)
    /\ UNCHANGED <<pages, notion, BuildFrame>>

\* lines 412-424
FileWithoutMain ==
    /\ InFiles
    /\ html_file.stem \notin UtilityStems
    /\ file_main = NoTag
    /\ build' = NextFile(build)
    /\ UNCHANGED <<pages, notion, BuildFrame>>

\* line 431: the conversion of a page raises.
FileRaises ==
    /\ InFiles
    /\ html_file.stem \notin UtilityStems
    /\ file_main # NoTag
    /\ convert_html_to_blocks(file_main).pc = "raised"
    /\ build' = Ended(build, "raised")
    /\ UNCHANGED <<pages, notion, BuildFrame>>

\* lines 431-452: the page under the index page, stored for the
\* navigation.
CreateChildPage ==
    /\ InFiles
    /\ html_file.stem \notin UtilityStems
    /\ file_main # NoTag
    /\ convert_html_to_blocks(file_main).pc = "done"
    /\ LET title == get_page_title(html_file.soup, html_file)
           stored == StoredPage(title, created_id(notion))
       IN  /\ notion' = pages_create(notion,
                           page([page_id |-> build.index_page],
                                [title |-> title],
                                convert_html_to_blocks(file_main).blocks))
           /\ pages' = Append(pages, stored)
           /\ build' = [NextFile(build) EXCEPT !.created = Append(@, stored)]
    /\ UNCHANGED BuildFrame

\* line 455: the second pass begins.
StartNavigation ==
    /\ build.pc = "files"
    /\ build.files = <<>>
    /\ build' = [build EXCEPT !.pc = "nav", !.i = 0]
    /\ UNCHANGED <<pages, notion, BuildFrame>>

InNavigation == build.pc = "nav" /\ build.i < Len(pages)
page_info == pages[build.i + 1]

\* lines 456-466: every navigation block of the page is appended.
AppendNavigation ==
    /\ InNavigation
    /\ notion' = blocks_children_append(notion, page_info.notion_id,
                                        add_navigation_block(pages, build.i))
    /\ build' = [build EXCEPT !.i = @ + 1]
    /\ UNCHANGED <<pages, BuildFrame>>

\* lines 461-468: the append of block k + 1 raises; the handler formats
\* page_info['path'], which raises KeyError out of the call when the
\* stored page has no such key.
NavigationFails ==
    /\ InNavigation
    /\ \E k \in 0..(Len(add_navigation_block(pages, build.i)) - 1) :
         notion' = blocks_children_append(notion, page_info.notion_id,
                       SubSeq(add_navigation_block(pages, build.i), 1, k))
    /\ build' = IF "path" \in DOMAIN page_info
                THEN [build EXCEPT !.failed = @ \cup {build.i}, !.i = @ + 1]
                ELSE Ended([build EXCEPT !.failed = @ \cup {build.i}], "raised")
    /\ UNCHANGED <<pages, BuildFrame>>

\* The loop of line 455 ends and on_post_build returns.
FinishBuild ==
    /\ build.pc = "nav"
    /\ build.i = Len(pages)
    /\ build' = Ended(build, "returned")
    /\ UNCHANGED <<pages, notion, BuildFrame>>

\* A request to the workspace raises (lines 334, 380, 384, 391, 437).
AtRequest ==
    \/ build.pc \in {"query", "create_project", "create_index"}
    \/ build.pc = "archive" /\ build.results # <<>>
    \/ /\ InFiles
       /\ html_file.stem \notin UtilityStems
       /\ file_main # NoTag
       /\ convert_html_to_blocks(file_main).pc = "done"

RequestFails ==
    /\ AtRequest
    /\ build' = Ended(build, "raised")
    /\ UNCHANGED <<pages, notion, BuildFrame>>

BuildNext ==
    \/ \E site \in Sites : StartBuild(site)
    \/ IndexWithoutMain
    \/ IndexRaises
    \/ ConvertIndex
    \/ QueryProjects
    \/ ArchiveExisting
    \/ CreateProject
    \/ CreateIndex
    \/ SkipUtility
    \/ FileWithoutMain
    \/ FileRaises
    \/ CreateChildPage
    \/ StartNavigation
    \/ AppendNavigation
    \/ NavigationFails
    \/ FinishBuild
    \/ RequestFails

SpecBuild == BuildInit /\ [][BuildNext]_vars

\* The call has ended, by return or by an exception.
BuildEnded == build.pc = "idle" /\ build.runs > 0
BuildReturned == BuildEnded /\ build.outcome = "returned"
BuildRaised == BuildEnded /\ build.outcome = "raised"

\* The page stored at index j of self.pages ends with its navigation.
HasNavigation(j) ==
    LET children == notion.pages[pages[j + 1].notion_id].children
        nav_blocks == add_navigation_block(pages, j)
    IN  /\ Len(children) >= Len(nav_blocks)
        /\ SubSeq(children, Len(children) - Len(nav_blocks) + 1,
                  Len(children)) = nav_blocks

\* C14: when appending the navigation of a page has failed, on_post_build
\* does not raise, and once it has returned every later page of the pages
\* list has its navigation blocks.
C14_Contained ==
    build.failed # {}
        => /\ ~BuildRaised
           /\ BuildReturned
                => \A j \in 0..(Len(pages) - 1) :
                       (\E f \in build.failed : f < j) /\ j \notin build.failed
                           => HasNavigation(j)

CreatedIds == { build.created[k].notion_id : k \in 1..Len(build.created) }

\* C15: at the start of the navigation pass of any run, the pages list
\* holds exactly the pages the run has created, in creation order with
\* the index page first, and every Previous/Next link of the navigation
\* leads to a page of the run.
C15_CurrentRunOnly ==
    (build.pc = "nav" /\ build.i = 0)
        => /\ pages = build.created
           /\ pages[1].notion_id = build.index_page
           /\ \A j \in 0..(Len(pages) - 1) :
                  LinkTargets(add_navigation_block(pages, j)) \subseteq CreatedIds

\* The rows of the projects table for a name and a version.
Rows(name, version) ==
    { k \in 1..Len(notion.pages) :
        /\ IsRowOf(notion.pages[k], database_id)
        /\ notion.pages[k].properties.Name = name
        /\ notion.pages[k].properties.Version = version }

ActiveRows(name, version) ==
    { k \in Rows(name, version) : ~notion.pages[k].archived }

SiteNames == { site.site_name : site \in Sites }

\* The table holds at most one row that is not archived for the name
\* and the version, and no such row when a run is about to create one.
OneActiveRow ==
    /\ \A name \in SiteNames : Cardinality(ActiveRows(name, Version)) <= 1
    /\ build.pc = "create_project"
         => ActiveRows(build.site.site_name, Version) = {}

\* C16 as stated: at most one row that is not archived, the row found
\* archived before the new one is created, and every run that has
\* returned has created exactly one project row.
C16_OneRow_Claimed ==
    /\ OneActiveRow
    /\ BuildReturned => build.rows_created = 1

\* C16: at most one row that is not archived, the row found archived
\* before the new one is created; a run creates at most one project row,
\* exactly one when it returns after finding main content in index.html,
\* and none when it finds no main content there.
C16_OneRow ==
    /\ OneActiveRow
    /\ build.rows_created <= 1
    /\ BuildReturned
         => build.rows_created =
              IF find_role(build.site.index, "div", "main") # NoTag
              THEN 1 ELSE 0

\* A later run for the same name has returned: the row of the earlier
\* run is archived and the row of this run is the one left.
C16_Witness ==
    /\ BuildReturned
    /\ build.rows_created = 1
    /\ build.runs > 1
    /\ Cardinality(ActiveRows(build.site.site_name, Version)) = 1
    /\ Cardinality(Rows(build.site.site_name, Version)) > 1

\* ---------------------------------------------------------------------
\* _create_docs_table, as on_config calls it.

MaxDatabases == 2   \* databases in the workspace before on_config

\* lines 44-50: notion.search(query='Projects', filter database); the
\* workspace answers with the databases of that title that are not
\* archived.
search(ws, query) ==
    SelectSeq([k \in 1..Len(ws.databases) |-> k],
              LAMBDA k : /\ ws.databases[k].title = query
                         /\ ~ws.databases[k].archived)

\* notion.databases.update(database_id=id, archived=True)
databases_update_archived(ws, id) ==
    [ws EXCEPT !.databases[id].archived = TRUE]

\* lines 71-79: notion.databases.create(...)
databases_create(ws, new) == [ws EXCEPT !.databases = Append(@, new)]

\* lines 54-57
InParent(db) == db.parent.page_id = ParentPage
HasRequired(db) == \A prop \in required_props : prop \in db.properties

DatabaseKinds ==
    { database(Projects, ParentPage, required_props),
      database(Projects, ParentPage, required_props \cup {"Owner"}),
      database(Projects, ParentPage, {"Name", "Version"}),
      database(Projects, OtherPage, required_props),
      database(<<"Tasks">>, ParentPage, {"Name"}) }

\* Before on_config, in a workspace of up to MaxDatabases databases.
TableInit ==
    /\ notion \in { [databases |-> dbs, pages |-> <<>>] :
                      dbs \in SeqsUpTo(DatabaseKinds, MaxDatabases) }
    /\ setup = NotSetUp
    /\ database_id = NoId
    /\ pages = <<>>
    /\ build = NotBuilding
    /\ calls = <<>>
    /\ html_content = BeautifulSoup(<<>>)
    /\ main_content = NoTag
    /\ idx = 0
    /\ blocks = <<>>
    /\ pc = "done"

TableFrame == <<CallFrame, calls, build, pages>>

\* lines 84-96 and 44-50: on_config calls _create_docs_table, which
\* searches.
Search ==
    /\ setup.pc = "idle"
    /\ setup.runs < MaxRuns
    /\ setup' = [pc |-> "loop", runs |-> setup.runs + 1,
                 results |-> search(notion, Projects), k |-> 0,
                 before |-> notion]
    /\ UNCHANGED <<notion, database_id, TableFrame>>

InResults == setup.pc = "loop" /\ setup.k < Len(setup.results)
db_id == setup.results[setup.k + 1]
db == notion.databases[db_id]

\* line 54: a database of another page is passed over.
SkipElsewhere ==
    /\ InResults
    /\ ~InParent(db)
    /\ setup' = [setup EXCEPT !.k = @ + 1]
    /\ UNCHANGED <<notion, database_id, TableFrame>>

\* lines 57-59 and 96: the table is returned and kept as database_id.
ReturnExisting ==
    /\ InResults
    /\ InParent(db)
    /\ HasRequired(db)
    /\ database_id' = db_id
    /\ setup' = [setup EXCEPT !.pc = "idle"]
    /\ UNCHANGED <<notion, TableFrame>>

\* lines 60-67: the table is archived and the loop goes on.
ArchiveMismatch ==
    /\ InResults
    /\ InParent(db)
    /\ ~HasRequired(db)
    /\ notion' = databases_update_archived(notion, db_id)
    /\ setup' = [setup EXCEPT !.k = @ + 1]
    /\ UNCHANGED <<database_id, TableFrame>>

\* lines 69-82 and 96: after the loop a table is created and returned.
CreateTable ==
    /\ setup.pc = "loop"
    /\ setup.k = Len(setup.results)
    /\ notion' = databases_create(notion,
                     database(Projects, ParentPage, required_props))
    /\ database_id' = Len(notion.databases) + 1
    /\ setup' = [setup EXCEPT !.pc = "idle"]
    /\ UNCHANGED TableFrame

TableNext ==
    \/ Search
    \/ SkipElsewhere
    \/ ReturnExisting
    \/ ArchiveMismatch
    \/ CreateTable

SpecTable == TableInit /\ [][TableNext]_vars

\* The usable tables among the results of the search: in the parent
\* page and with every required property.
Usable ==
    { setup.results[j] : j \in { n \in 1..Len(setup.results) :
        /\ InParent(setup.before.databases[setup.results[n]])
        /\ HasRequired(setup.before.databases[setup.results[n]]) } }

\* C17: in a call whose search results hold a usable table, the
\* workspace stays as the call found it (no database created, none
\* archived) and the id returned is that of a usable table; a call that
\* has created a database had no usable table among its results.
C17_NothingChanged ==
    setup.runs > 0
        => /\ Usable # {}
                => /\ notion = setup.before
                   /\ setup.pc = "idle" => database_id \in Usable
           /\ Len(notion.databases) > Len(setup.before.databases)
                => Usable = {}

====
